---- MODULE Spec2Model ----
(***************************************************************************)
(* Model of fastapi_users_db_sqlalchemy: the user / OAuth-account tables   *)
(* and SQLAlchemyUserDatabase, the adapter that reads and writes them      *)
(* through a transactional session.                                        *)
(*                                                                         *)
(* The committed contents of the two tables are the state.  Every public   *)
(* method of the adapter is one action; the action runs the method's       *)
(* session calls in order (add / delete, commit, refresh, execute) and     *)
(* records in `last` what the caller observes: the result or the error,    *)
(* the session calls that were made and the in-memory objects passed in.   *)
(*                                                                         *)
(* Optional values (Optional[...] results, nullable columns) are sets of   *)
(* at most one element: {} is None / NULL, {v} is the value v.             *)
(* Strings that are lower-cased (emails) are sequences of characters.      *)
(***************************************************************************)
EXTENDS Integers, Sequences, FiniteSets, TLC

VARIABLES users, accounts, oauth_account_table, last

vars == <<users, accounts, oauth_account_table, last>>

(* ------------------------------ bounds -------------------------------- *)

\* At most this many rows are stored, over the two tables together.
MaxRows == 3

\* Rows a create or add_oauth_account can still store.
RoomLeft == Cardinality(users) + Cardinality(accounts) < MaxRows

(* ------------------------------ values -------------------------------- *)

None == {}
Some(v) == {v}

\* Identifiers are opaque (uuid4 values); these are the ones the tables use.
UserIds == {"u1", "u2"}
AccountIds == {"o1", "o2"}
\* Stands for the user id of a call that takes none.
NoId == "none"

\* Emails a caller stores; the first two differ only in case.
Emails == { <<"A", "@", "B">>, <<"a", "@", "b">>, <<"u", "@", "t">> }
\* Emails a caller looks up: the stored ones, an upper-case variant, an absent one.
QueryEmails == Emails \cup { <<"U", "@", "T">>, <<"x", "@", "y">> }

OAuthNames == {"google", "github"}
OAuthAccountIds == {"a1", "a2"}

\* create_dict of create(): the required fields (the flags and the id take
\* their defaults), and one mapping that leaves a NOT NULL column out.
CreateDicts ==
    [email : Emails, hashed_password : {"x"}]
    \cup [email : {<<"u", "@", "t">>}]

\* update_dict of update().
UpdateDicts ==
    [email : Emails]
    \cup [hashed_password : {"y"}, is_verified : {TRUE}]

\* create_dict of add_oauth_account().
OAuthCreateDicts ==
    [oauth_name : OAuthNames, account_id : {"a1"},
     access_token : {"t1"}, account_email : {"e"}]
    \cup [oauth_name : {"google"}, account_id : {"a1"}, account_email : {"e"}]

\* update_dict of update_oauth_account().
OAuthUpdateDicts ==
    [account_id : {"a2"}, access_token : {"t2"}, expires_at : {Some(1700)}]

\* Errors the caller can observe.
NotImplementedError == "NotImplementedError"
IntegrityError == "IntegrityError"
SessionError == "SessionError"

(* --------------------------- table schemas ---------------------------- *)

Field(d, k, default) == IF k \in DOMAIN d THEN d[k] ELSE default

\* The user row an INSERT of the transient object `d` writes: columns absent
\* from the mapping take their defaults (id: a fresh uuid4).
\* UserRow, were the email normalised to lower case before it is stored.
UserRowLowersEmail(d, fresh) ==
    [id              |-> Field(d, "id", fresh),
     email           |-> [i \in 1..Len(d.email) |->
                             IF d.email[i] = "A" THEN "a"
                             ELSE IF d.email[i] = "B" THEN "b" ELSE d.email[i]],
     hashed_password |-> d.hashed_password,
     is_active       |-> Field(d, "is_active", TRUE),
     is_superuser    |-> Field(d, "is_superuser", FALSE),
     is_verified     |-> Field(d, "is_verified", FALSE)]

UserRow(d, fresh) ==
    [id              |-> Field(d, "id", fresh),
     email           |-> d.email,
     hashed_password |-> d.hashed_password,
     is_active       |-> Field(d, "is_active", TRUE),
     is_superuser    |-> Field(d, "is_superuser", FALSE),
     is_verified     |-> Field(d, "is_verified", FALSE)]

\* nullable=False columns of the user table that have no default.
UserNotNull(d) == {"email", "hashed_password"} \subseteq DOMAIN d

\* Primary key on id, unique=True on email (the column's own equality).
UsersConstraintOK(us) ==
    \A u, v \in us : u # v => (u.id # v.id /\ u.email # v.email)

\* The oauth_account row an INSERT writes; user_id comes from the link to the
\* owning user, nullable columns absent from the mapping are NULL.
AccountRow(d, fresh, user_id) ==
    [id            |-> fresh,
     user_id       |-> user_id,
     oauth_name    |-> d.oauth_name,
     access_token  |-> d.access_token,
     expires_at    |-> Field(d, "expires_at", None),
     refresh_token |-> Field(d, "refresh_token", None),
     account_id    |-> d.account_id,
     account_email |-> d.account_email]

\* nullable=False columns of the oauth_account table that have no default.
AccountNotNull(d) ==
    {"oauth_name", "access_token", "account_id", "account_email"} \subseteq DOMAIN d

\* Primary key on id, foreign key user_id -> user.id.  No constraint spans
\* oauth_name and account_id: both are index=True only.
AccountsConstraintOK(us, acs) ==
    /\ \A a, b \in acs : a # b => a.id # b.id
    /\ \A a \in acs : \E u \in us : u.id = a.user_id

\* OnDeleteCascade, were the foreign key declared without ondelete.
OnDeleteNoAction(acs, user_id) == acs

\* ForeignKey("user.id", ondelete="cascade"): rows owned by a deleted user go.
OnDeleteCascade(acs, user_id) == {a \in acs : a.user_id # user_id}

\* A user as the session materialises it: the row and its account collection.
Entity(u, acs) ==
    [id              |-> u.id,
     email           |-> u.email,
     hashed_password |-> u.hashed_password,
     is_active       |-> u.is_active,
     is_superuser    |-> u.is_superuser,
     is_verified     |-> u.is_verified,
     oauth_accounts  |-> {a \in acs : a.user_id = u.id}]

\* The row of an entity (its columns without the relationship).
RowOf(e) == [k \in DOMAIN e \ {"oauth_accounts"} |-> e[k]]

\* SetAttrs, were is_verified reset whenever it is not named.
SetAttrsResetsVerified(obj, update_dict) ==
    [k \in DOMAIN obj |-> IF k \in DOMAIN update_dict THEN update_dict[k]
                          ELSE IF k = "is_verified" THEN FALSE ELSE obj[k]]

\* for key, value in update_dict.items(): setattr(obj, key, value)
SetAttrs(obj, update_dict) ==
    [k \in DOMAIN obj |-> IF k \in DOMAIN update_dict THEN update_dict[k] ELSE obj[k]]

(* ------------------------------ queries ------------------------------- *)

\* func.lower on one character.
LowerChar(c) ==
    CASE c = "A" -> "a"
      [] c = "B" -> "b"
      [] c = "T" -> "t"
      [] c = "U" -> "u"
      [] OTHER -> c

\* Lower, were the comparison made on the strings as given.
LowerIdentity(s) == s

\* func.lower
Lower(s) == [i \in 1..Len(s) |-> LowerChar(s[i])]

\* select(user_table).where(user_table.id == id)
SelectById(us, id) == {u \in us : u.id = id}

\* select(user_table).where(func.lower(user_table.email) == func.lower(email))
SelectByEmail(us, email) == {u \in us : Lower(u.email) = Lower(email)}

\* SelectByOAuth, were the account_id filter left out.
SelectByOAuthNameOnly(us, acs, oauth, account_id) ==
    {u \in us : \E a \in acs : a.user_id = u.id /\ a.oauth_name = oauth}

\* select(user_table).join(oauth_account_table)
\*   .where(oauth_name == oauth).where(account_id == account_id)
SelectByOAuth(us, acs, oauth, account_id) ==
    {u \in us : \E a \in acs : /\ a.user_id = u.id
                               /\ a.oauth_name = oauth
                               /\ a.account_id = account_id}

\* _get_user: results.first() of an unordered statement is any matching row;
\* None when there is none.  The set of results the call can return.
GetUser(rows, acs) ==
    IF rows = {} THEN {None} ELSE {Some(Entity(u, acs)) : u \in rows}

(* ------------------------------ session ------------------------------- *)

\* NoOAuth, were the guard left out of the OAuth methods.
NoOAuthNeverChecked == FALSE

\* self.oauth_account_table is None
NoOAuth == oauth_account_table = "None"

\* What the caller observes of one call.
Observe(op, status, ret, calls, uid, arg, user, oauth_account) ==
    [op |-> op, status |-> status, ret |-> ret, calls |-> calls, uid |-> uid,
     arg |-> arg, user |-> user, oauth_account |-> oauth_account]

\* Commit, were the changes written although the commit raises.
CommitWritesBeforeFailing(fail, valid, us, acs) ==
    IF fail = "commit" THEN [status |-> SessionError, users |-> us, accounts |-> acs]
    ELSE IF ~valid THEN [status |-> IntegrityError, users |-> users, accounts |-> accounts]
    ELSE [status |-> "ok", users |-> us, accounts |-> acs]

\* SessionDelete, were the deletion never flushed.
SessionDeleteNotFlushed(us, u) == us

\* session.delete(user): the flush removes the user's row.
SessionDelete(us, u) == us \ {u}

\* session.commit(): the flush writes the pending changes (us, acs) as one
\* transaction, or fails and leaves the committed tables as they were.
Commit(fail, valid, us, acs) ==
    IF fail = "commit" THEN [status |-> SessionError, users |-> users, accounts |-> accounts]
    ELSE IF ~valid THEN [status |-> IntegrityError, users |-> users, accounts |-> accounts]
    ELSE [status |-> "ok", users |-> us, accounts |-> acs]

Init ==
    /\ users = {}
    /\ accounts = {}
    /\ oauth_account_table \in {"None", "OAuthAccount"}
    /\ last = Observe("init", "ok", None, <<>>, NoId, <<>>, None, None)

(* ------------------------------ adapter ------------------------------- *)

\* A call that raised: no result; the objects passed in as the call left them.
Raised(op, status, calls, uid, user, oauth_account) ==
    Observe(op, status, None, calls, uid, <<>>, user, oauth_account)

\* get(id)
get(id) ==
    /\ \E r \in GetUser(SelectById(users, id), accounts) :
           last' = Observe("get", "ok", r, <<"execute">>, id, <<>>, None, None)
    /\ UNCHANGED <<users, accounts, oauth_account_table>>

\* get_by_email(email)
get_by_email(email) ==
    /\ \E r \in GetUser(SelectByEmail(users, email), accounts) :
           last' = Observe("get_by_email", "ok", r, <<"execute">>, NoId, email, None, None)
    /\ UNCHANGED <<users, accounts, oauth_account_table>>

\* get_by_oauth_account(oauth, account_id)
get_by_oauth_account(oauth, account_id) ==
    LET arg == [oauth |-> oauth, account_id |-> account_id] IN
    /\ IF NoOAuth
       THEN last' = Raised("get_by_oauth_account", NotImplementedError, <<>>, NoId, None, None)
       ELSE \E r \in GetUser(SelectByOAuth(users, accounts, oauth, account_id), accounts) :
                last' = Observe("get_by_oauth_account", "ok", r, <<"execute">>, NoId, arg,
                                None, None)
    /\ UNCHANGED <<users, accounts, oauth_account_table>>

\* create(create_dict); `fresh` is the id uuid4 generates for the new row.
create(create_dict, fresh, fail) ==
    LET user  == create_dict
        valid == UserNotNull(user) /\ UsersConstraintOK(users \cup {UserRow(user, fresh)})
        c     == Commit(fail, valid,
                        IF valid THEN users \cup {UserRow(user, fresh)} ELSE users, accounts)
    IN
    /\ users' = c.users
    /\ accounts' = c.accounts
    /\ IF c.status # "ok"
       THEN last' = Raised("create", c.status, <<"add", "commit">>, NoId, None, None)
       ELSE IF fail = "refresh"
       THEN last' = Raised("create", SessionError, <<"add", "commit", "refresh">>, NoId,
                           None, None)
       ELSE last' = Observe("create", "ok", Some(Entity(UserRow(user, fresh), c.accounts)),
                            <<"add", "commit", "refresh">>, NoId, create_dict, None, None)
    /\ UNCHANGED oauth_account_table

\* update(user, update_dict); `u` is the stored row of the entity passed in.
update(u, update_dict, fail) ==
    LET user == SetAttrs(Entity(u, accounts), update_dict)
        new  == (users \ {u}) \cup {RowOf(user)}
        c    == Commit(fail, UsersConstraintOK(new), new, accounts)
    IN
    /\ users' = c.users
    /\ accounts' = c.accounts
    /\ IF c.status # "ok"
       THEN last' = Raised("update", c.status, <<"add", "commit">>, u.id, Some(user), None)
       ELSE IF fail = "refresh"
       THEN last' = Raised("update", SessionError, <<"add", "commit", "refresh">>, u.id,
                           Some(user), None)
       ELSE last' = Observe("update", "ok", Some(Entity(RowOf(user), c.accounts)),
                            <<"add", "commit", "refresh">>, u.id, update_dict,
                            Some(Entity(RowOf(user), c.accounts)), None)
    /\ UNCHANGED oauth_account_table

\* delete(user)
delete(u, fail) ==
    LET user == Entity(u, accounts)
        c    == Commit(fail, TRUE, SessionDelete(users, u), OnDeleteCascade(accounts, u.id))
    IN
    /\ IF fail = "delete"
       THEN /\ last' = Raised("delete", SessionError, <<"delete">>, u.id, Some(user), None)
            /\ UNCHANGED <<users, accounts>>
       ELSE /\ last' = Raised("delete", c.status, <<"delete", "commit">>, u.id, Some(user),
                              None)
            /\ users' = c.users
            /\ accounts' = c.accounts
    /\ UNCHANGED oauth_account_table

\* add_oauth_account(user, create_dict); `fresh` is the new account's uuid4.
add_oauth_account(u, create_dict, fresh, fail) ==
    LET passed        == Entity(u, accounts)
        oauth_account == create_dict
        valid         == AccountNotNull(oauth_account)
        \* user.oauth_accounts.append(oauth_account) is what sets the row's user_id
        user          == [passed EXCEPT !.oauth_accounts = @ \cup {oauth_account}]
        new           == IF valid
                         THEN accounts \cup {AccountRow(oauth_account, fresh, user.id)}
                         ELSE accounts
        c             == Commit(fail, valid /\ AccountsConstraintOK(users, new), users, new)
    IN
    /\ IF NoOAuth
       THEN /\ last' = Raised("add_oauth_account", NotImplementedError, <<>>, u.id,
                              Some(passed), None)
            /\ UNCHANGED <<users, accounts>>
       ELSE /\ users' = c.users
            /\ accounts' = c.accounts
            /\ IF c.status # "ok"
               THEN last' = Raised("add_oauth_account", c.status, <<"add", "add", "commit">>,
                                   u.id, Some(user), Some(oauth_account))
               ELSE IF fail = "refresh"
               THEN last' = Raised("add_oauth_account", SessionError,
                                   <<"add", "add", "commit", "refresh">>, u.id, Some(user),
                                   Some(oauth_account))
               ELSE last' = Observe("add_oauth_account", "ok", Some(Entity(u, c.accounts)),
                                    <<"add", "add", "commit", "refresh">>, u.id, create_dict,
                                    Some(Entity(u, c.accounts)),
                                    Some(AccountRow(oauth_account, fresh, user.id)))
    /\ UNCHANGED oauth_account_table

\* update_oauth_account(user, oauth_account, update_dict); `a` is the account
\* object passed in.
update_oauth_account(u, a, update_dict, fail) ==
    LET passed        == Entity(u, accounts)
        oauth_account == SetAttrs(a, update_dict)
        new           == (accounts \ {a}) \cup {oauth_account}
        c             == Commit(fail, AccountsConstraintOK(users, new), users, new)
    IN
    /\ IF NoOAuth
       THEN /\ last' = Raised("update_oauth_account", NotImplementedError, <<>>, u.id,
                              Some(passed), Some(a))
            /\ UNCHANGED <<users, accounts>>
       ELSE /\ users' = c.users
            /\ accounts' = c.accounts
            /\ IF c.status # "ok"
               THEN last' = Raised("update_oauth_account", c.status, <<"add", "commit">>,
                                   u.id, Some(passed), Some(oauth_account))
               ELSE IF fail = "refresh"
               THEN last' = Raised("update_oauth_account", SessionError,
                                   <<"add", "commit", "refresh">>, u.id, Some(passed),
                                   Some(oauth_account))
               ELSE last' = Observe("update_oauth_account", "ok",
                                    Some(Entity(u, c.accounts)),
                                    <<"add", "commit", "refresh">>, u.id, update_dict,
                                    Some(Entity(u, c.accounts)), Some(oauth_account))
    /\ UNCHANGED oauth_account_table

(* --------------------------- specification ---------------------------- *)

\* The session call at which the backing store fails, if any.
Failures == {"none", "commit", "refresh"}

\* OAuth account objects a caller can hold when the adapter has no OAuth table.
DetachedAccounts ==
    {AccountRow(d, "o1", "u1") : d \in {x \in OAuthCreateDicts : AccountNotNull(x)}}

Get == \E id \in UserIds : get(id)

GetByEmail == \E email \in QueryEmails : get_by_email(email)

GetByOAuthAccount ==
    \E oauth \in OAuthNames, account_id \in OAuthAccountIds :
        get_by_oauth_account(oauth, account_id)

Create ==
    /\ RoomLeft
    /\ \E create_dict \in CreateDicts, fresh \in UserIds \ {u.id : u \in users},
          fail \in Failures :
           create(create_dict, fresh, fail)

Update ==
    \E u \in users, update_dict \in UpdateDicts, fail \in Failures :
        update(u, update_dict, fail)

Delete == \E u \in users, fail \in {"none", "delete", "commit"} : delete(u, fail)

AddOAuthAccount ==
    /\ RoomLeft \/ NoOAuth
    /\ \E u \in users, create_dict \in OAuthCreateDicts,
          fresh \in AccountIds \ {a.id : a \in accounts}, fail \in Failures :
           add_oauth_account(u, create_dict, fresh, fail)

UpdateOAuthAccount ==
    \E u \in users, a \in (IF NoOAuth THEN DetachedAccounts ELSE accounts),
       update_dict \in OAuthUpdateDicts, fail \in Failures :
        update_oauth_account(u, a, update_dict, fail)

Next ==
    \/ Get
    \/ GetByEmail
    \/ GetByOAuthAccount
    \/ Create
    \/ Update
    \/ Delete
    \/ AddOAuthAccount
    \/ UpdateOAuthAccount

Spec == Init /\ [][Next]_vars

(* ------------------------------- claims ------------------------------- *)

\* The element of a one-element set (the value of a present Optional).
The(S) == CHOOSE x \in S : TRUE

\* Letters that differ only in case.
CasePairs == { <<"A", "a">>, <<"B", "b">>, <<"T", "t">>, <<"U", "u">> }

\* Two strings are equal up to the case of their letters.
EqualIgnoringCase(s, t) ==
    /\ Len(s) = Len(t)
    /\ \A i \in 1..Len(s) :
           s[i] = t[i] \/ <<s[i], t[i]>> \in CasePairs \/ <<t[i], s[i]>> \in CasePairs

OAuthOps == {"get_by_oauth_account", "add_oauth_account", "update_oauth_account"}
MutatingOps == {"create", "update", "delete", "add_oauth_account", "update_oauth_account"}

\* Two accounts carry the same (oauth_name, account_id) pair.
SamePair(a, b) == a.oauth_name = b.oauth_name /\ a.account_id = b.account_id

\* C1: after create(m) succeeds and returns u, get(u.id) on the store as the
\* create left it returns exactly u, and every field named in m has m's value.
C1_CreateGetRoundTrip ==
    (last.op = "create" /\ last.status = "ok") =>
        /\ last.ret # None
        /\ GetUser(SelectById(users, The(last.ret).id), accounts) = {last.ret}
        /\ \A k \in DOMAIN last.arg : The(last.ret)[k] = last.arg[k]

\* A create of the mixed-case email succeeded while another user was stored.
C1_Witness ==
    /\ last.op = "create" /\ last.status = "ok"
    /\ last.arg.email = <<"A", "@", "B">>
    /\ Cardinality(users) = 2

\* C2: get_by_email(q) returns a stored user whose email equals q up to case
\* whenever there is one, and None exactly when there is none; when one user
\* matches (email "A@B" stored, "a@b" asked) it is that user.
C2_EmailLookupIgnoresCase ==
    (last.op = "get_by_email" /\ last.status = "ok") =>
        LET matching == {u \in users : EqualIgnoringCase(u.email, last.arg)} IN
        /\ (last.ret = None) <=> (matching = {})
        /\ \A e \in last.ret : RowOf(e) \in matching /\ e = Entity(RowOf(e), accounts)

\* get_by_email("a@b") returned the user stored as "A@B".
C2_Witness ==
    /\ last.op = "get_by_email" /\ last.arg = <<"a", "@", "b">>
    /\ \E e \in last.ret : e.email = <<"A", "@", "B">>

\* C3: no two distinct stored users have emails that are equal after
\* lower-casing.
C3_EmailCaseInsensitivelyUnique ==
    \A u, v \in users : u # v => ~EqualIgnoringCase(u.email, v.email)

\* C4: a successful update(user, update_dict) gives every named field its
\* mapped value and leaves every other field of that user, every other user
\* and every OAuth account as they were.
C4_UpdateChangesOnlyNamedFields ==
    [][(last'.op = "update" /\ last'.status = "ok") =>
         \E u \in users :
            LET d == last'.arg
                v == RowOf(The(last'.ret))
            IN /\ u.id = last'.uid
               /\ \A k \in DOMAIN u : v[k] = IF k \in DOMAIN d THEN d[k] ELSE u[k]
               /\ v \in users'
               /\ users' \ {v} = users \ {u}
               /\ accounts' = accounts]_vars

\* An update of the email alone succeeded on a verified user that owns an
\* account, with another user stored.
C4_Witness ==
    /\ last.op = "update" /\ last.status = "ok"
    /\ DOMAIN last.arg = {"email"}
    /\ The(last.ret).is_verified
    /\ The(last.ret).oauth_accounts # {}
    /\ Cardinality(users) = 2

\* C5: after a successful delete(user) get(user.id) returns None, every other
\* user is still returned by get with the same fields, and an identifier that
\* get does not find is found again only once a create has stored it.
C5_DeleteThenGetNotFound ==
    [][/\ (last'.op = "delete" /\ last'.status = "ok") =>
            /\ GetUser(SelectById(users', last'.uid), accounts') = {None}
            /\ \A v \in users : v.id # last'.uid => SelectById(users', v.id) = {v}
       /\ \A i \in UserIds :
            (SelectById(users, i) = {} /\ SelectById(users', i) # {}) => last'.op = "create"
      ]_vars

\* A delete succeeded and another user is still stored.
C5_Witness ==
    /\ last.op = "delete" /\ last.status = "ok"
    /\ users # {}

\* C6: after a successful delete(u) no oauth_account row with user_id = u.id
\* remains, and get_by_oauth_account(n, a) returns None for every pair (n, a)
\* of an account u owned that no other user's account carries.
C6_DeleteCascades ==
    (last.op = "delete" /\ last.status = "ok") =>
        /\ \A a \in accounts : a.user_id # last.uid
        /\ \A a \in The(last.user).oauth_accounts :
              (\A b \in accounts : b.user_id # last.uid => ~SamePair(a, b)) =>
                 GetUser(SelectByOAuth(users, accounts, a.oauth_name, a.account_id),
                         accounts) = {None}

\* A delete succeeded on a user that owned an account, another user remaining.
C6_Witness ==
    /\ last.op = "delete" /\ last.status = "ok"
    /\ The(last.user).oauth_accounts # {}
    /\ users # {}

\* C7: without an OAuth account table every OAuth operation raises
\* NotImplementedError before any session call, and leaves the tables and the
\* objects passed in as they were.
C7_OAuthUnsupported ==
    [][(oauth_account_table = "None" /\ last'.op \in OAuthOps) =>
         /\ last'.status = NotImplementedError
         /\ last'.calls = <<>>
         /\ users' = users /\ accounts' = accounts
         /\ \A e \in last'.user : RowOf(e) \in users /\ e = Entity(RowOf(e), accounts)
         /\ last'.oauth_account \subseteq DetachedAccounts]_vars

\* update_oauth_account raised NotImplementedError on a stored user.
C7_Witness ==
    /\ oauth_account_table = "None"
    /\ last.op = "update_oauth_account" /\ last.status = NotImplementedError
    /\ last.user # None

\* C8: no two distinct stored OAuth accounts share oauth_name and account_id.
C8_OAuthPairUnique ==
    \A a, b \in accounts : a # b => ~SamePair(a, b)

\* C9 as stated: whenever a mutating operation fails, the committed tables are
\* what they were before the call.
C9_FailureLeavesStoreUnchanged ==
    [][(last'.op \in MutatingOps /\ last'.status # "ok") =>
         (users' = users /\ accounts' = accounts)]_vars

\* The session calls of each mutating operation, in order.
SessionCalls(op) ==
    CASE op = "create" -> <<"add", "commit", "refresh">>
      [] op = "update" -> <<"add", "commit", "refresh">>
      [] op = "delete" -> <<"delete", "commit">>
      [] op = "add_oauth_account" -> <<"add", "add", "commit", "refresh">>
      [] op = "update_oauth_account" -> <<"add", "commit", "refresh">>

\* C9 amended: a failing mutating operation returns nothing, has made its
\* session calls once each in order up to the failing one, and leaves the
\* committed tables unchanged unless the failing call is the refresh that
\* follows a successful commit.
C9_FailureAtomicUpToCommit ==
    [][(last'.op \in MutatingOps /\ last'.status # "ok") =>
         /\ last'.ret = None
         /\ last'.calls = SubSeq(SessionCalls(last'.op), 1, Len(last'.calls))
         /\ (last'.calls = <<>> \/ last'.calls[Len(last'.calls)] # "refresh") =>
                (users' = users /\ accounts' = accounts)]_vars

\* An update failed at commit on the email's uniqueness.
C9_Witness ==
    /\ last.op = "update" /\ last.status = IntegrityError
    /\ Cardinality(users) = 2

\* C10: after a successful add_oauth_account(u, d) the new account is stored
\* with user_id = u.id, with d's oauth_name and account_id, in u's account
\* collection, and get_by_oauth_account on its pair returns u when no other
\* account carries the pair; get_by_oauth_account returns None exactly when no
\* account of a stored user matches both fields.
C10_AddOAuthAccountLinks ==
    /\ (last.op = "add_oauth_account" /\ last.status = "ok") =>
          LET acc == The(last.oauth_account)
              e   == The(last.ret)
          IN /\ acc \in accounts
             /\ acc.user_id = last.uid /\ e.id = last.uid
             /\ acc \in e.oauth_accounts
             /\ acc.oauth_name = last.arg.oauth_name
             /\ acc.account_id = last.arg.account_id
             /\ (\A b \in accounts \ {acc} : ~SamePair(acc, b)) =>
                   GetUser(SelectByOAuth(users, accounts, acc.oauth_name, acc.account_id),
                           accounts) = {Some(e)}
    /\ (last.op = "get_by_oauth_account" /\ last.status = "ok") =>
          LET owners == {u \in users : \E a \in accounts :
                            /\ a.user_id = u.id
                            /\ a.oauth_name = last.arg.oauth
                            /\ a.account_id = last.arg.account_id}
          IN /\ (last.ret = None) <=> (owners = {})
             /\ \A e \in last.ret : RowOf(e) \in owners

\* An account was added for a user while another account, with another pair,
\* is stored.
C10_Witness ==
    /\ last.op = "add_oauth_account" /\ last.status = "ok"
    /\ \E b \in accounts : ~SamePair(b, The(last.oauth_account))

====
